---- MODULE Spec2Model ----
(***************************************************************************)
(* Model of artiq/coredevice/comm_generic.py: the framing reader and       *)
(* writer of CommGeneric, and the serve loop built on them.                *)
(*                                                                         *)
(* Bytes are integers 0..255 and byte strings are sequences of them.  The  *)
(* transport's read(n) returns exactly n bytes (its documented contract):  *)
(* an operation whose reads need more bytes than the device has sent so    *)
(* far is waiting in read(), and its action fires once the bytes are       *)
(* there.  An exception raised by the code is the outcome string of the    *)
(* operation ("ok" when it returns).                                       *)
(***************************************************************************)
EXTENDS Integers, Sequences, FiniteSets, TLC

VARIABLES
    read_type,      \* self._read_type: a _D2HMsgType value, NoneType before any header
    read_length,    \* self._read_length
    write_type,     \* self._write_type: a _H2DMsgType value, NoneType before any header
    write_buffer,   \* self._write_buffer: the list of chunks
    rx,             \* bytes the device has sent and the host has not read yet
    tx,             \* the write() calls of the operation that ran last, in order
    pc,             \* where serve is: "idle", "serving", "returned", "raised"
    awaiting,       \* the exported operation waiting in read() for its reply
    since_header,   \* history: kind and chunks handed to the writer since _write_header
    last            \* history: the operation that ran last, its inputs and outcome

vars == <<read_type, read_length, write_type, write_buffer, rx, tx, pc,
          awaiting, since_header, last>>

----------------------------------------------------------------------------
(* Bounds of the model. *)

\* longest run of noise bytes the device sends before a frame
MaxNoise == 2
\* longest message body of the reader-level frames
MaxBody == 2
\* most unread bytes that may be left in rx when the device sends again
MaxPending == 1
\* largest length asked of _read_chunk
MaxChunk == 3
\* largest remaining body length from which the model goes on reading chunks
MaxRemaining == 3
\* most chunks appended to the write buffer of one message
MaxChunks == 3

----------------------------------------------------------------------------
(* Program constants. *)

\* _read_type / _write_type before any header (None)
NoneType == 0
\* the synchronisation byte 0x5a
SYNC_BYTE == 90
\* number of consecutive synchronisation bytes that start a frame
SYNC_COUNT == 4
\* header overhead counted in the length field
HEADER_SIZE == 9

LOG_REQUEST == 1
IDENT_REQUEST == 2
SWITCH_CLOCK == 3
LOAD_LIBRARY == 4
RUN_KERNEL == 5
RPC_REPLY == 6
RPC_EXCEPTION == 7
FLASH_READ_REQUEST == 8
FLASH_WRITE_REQUEST == 9
FLASH_ERASE_REQUEST == 10
FLASH_REMOVE_REQUEST == 11

LOG_REPLY == 1
IDENT_REPLY == 2
CLOCK_SWITCH_COMPLETED == 3
CLOCK_SWITCH_FAILED == 4
LOAD_COMPLETED == 5
LOAD_FAILED == 6
KERNEL_FINISHED == 7
KERNEL_STARTUP_FAILED == 8
KERNEL_EXCEPTION == 9
RPC_REQUEST == 10
FLASH_READ_REPLY == 11
FLASH_OK_REPLY == 12
FLASH_ERROR_REPLY == 13

\* the values of _H2DMsgType
H2DMsgType == 1..11
\* the values of _D2HMsgType: _D2HMsgType(raw) raises ValueError outside them
D2HMsgType == 1..13

----------------------------------------------------------------------------
(* struct.pack / struct.unpack *)

\* struct.pack("B", v) for 0 <= v <= 255
PackB(v) == <<v>>

\* struct.pack(">l", v) for -2^31 <= v <= 2^31-1: big-endian two's complement
Pack32(v) ==
    LET hi == IF v < 0 THEN (v \div 16777216) + 256 ELSE v \div 16777216
        lo == v % 16777216
    IN  <<hi, lo \div 65536, (lo \div 256) % 256, lo % 256>>

\* struct.unpack(">l", b) of 4 bytes: big-endian signed
Unpack32(b) ==
    (IF b[1] >= 128 THEN b[1] - 256 ELSE b[1]) * 16777216
        + b[2] * 65536 + b[3] * 256 + b[4]

RECURSIVE Flat(_)
\* the bytes of a sequence of byte strings, in order
Flat(chunks) ==
    IF chunks = <<>> THEN <<>> ELSE Head(chunks) \o Flat(Tail(chunks))

RECURSIVE SumLen(_)
\* sum([len(chunk) for chunk in chunks])
SumLen(chunks) ==
    IF chunks = <<>> THEN 0 ELSE Len(Head(chunks)) + SumLen(Tail(chunks))

\* s[n:] of a byte string
Drop(s, n) == SubSeq(s, n + 1, Len(s))

----------------------------------------------------------------------------
(* Reader interface *)

\* variant: the test lets one unread byte pass
HeaderUnderrun_OffByOne(rl) == rl > 1

\* the test that refuses a header while body bytes are unread
HeaderUnderrun(rl) == rl > 0

\* variant: a byte that is not the sync byte leaves the counter as it is
SyncStep_NoReset(sync_count, sync_byte) ==
    IF sync_byte = SYNC_BYTE THEN sync_count + 1 ELSE sync_count

\* one pass of the synchronisation loop on the byte just read
SyncStep(sync_count, sync_byte) ==
    IF sync_byte = SYNC_BYTE THEN sync_count + 1 ELSE 0

RECURSIVE SyncScan(_, _, _)
\* the synchronisation loop: reads s[i], s[i+1], ... one byte at a time until
\* sync_count reaches 4; the number of bytes read, or -1 when s ends first
SyncScan(s, i, sync_count) ==
    IF ~(sync_count < SYNC_COUNT) THEN i - 1
    ELSE IF i > Len(s) THEN -1
    ELSE SyncScan(s, i + 1, SyncStep(sync_count, s[i]))

\* variant: only a negative length counts as the connection close
IsConnectionClose_Negative(length) == length < 0

\* "if not self._read_length": the in-band connection close
IsConnectionClose(length) == length = 0

\* the test for a length field too short to hold the header
HeaderOverrun(length) == length < HEADER_SIZE

\* the result of a reader operation
ReadResult(out, rl, rt, data, rest) ==
    [out |-> out, read_length |-> rl, read_type |-> rt, data |-> data, rx |-> rest]

\* read() is waiting for bytes the device has not sent
Blocked == ReadResult("block", 0, NoneType, <<>>, <<>>)

\* _read_header on reader state (rl, rt) with s to be read from the transport
ReadHeader(rl, rt, s) ==
    IF HeaderUnderrun(rl) THEN ReadResult("underrun", rl, rt, <<>>, s)
    ELSE LET p == SyncScan(s, 1, 0) IN
      IF p < 0 \/ Len(s) < p + 4 THEN Blocked
      ELSE LET length == Unpack32(SubSeq(s, p + 1, p + 4)) IN
        IF IsConnectionClose(length)
        THEN ReadResult("closed", length, rt, <<>>, Drop(s, p + 4))
        ELSE IF Len(s) < p + 5 THEN Blocked
        ELSE LET raw_type == s[p + 5] IN
          IF raw_type \notin D2HMsgType
          THEN ReadResult("badkind", length, rt, <<>>, Drop(s, p + 5))
          ELSE IF HeaderOverrun(length)
          THEN ReadResult("hdr_overrun", length, raw_type, <<>>, Drop(s, p + 5))
          ELSE ReadResult("ok", length - HEADER_SIZE, raw_type, <<>>, Drop(s, p + 5))

\* variant: every kind is taken for the expected one
ReadExpect_Always(rt, ty) == "ok"

\* _read_expect(ty) after a header of kind rt
ReadExpect(rt, ty) == IF rt # ty THEN "mismatch" ELSE "ok"

\* variant: a chunk of exactly the remaining length is refused too
ChunkOverrun_OrEqual(rl, length) == rl <= length

\* the test that refuses a chunk longer than the rest of the body
ChunkOverrun(rl, length) == rl < length

\* _read_chunk(length); a negative length that passes the test is handed to
\* the transport, whose answer to it is not defined ("neg_read")
ReadChunk(rl, rt, s, length) ==
    IF ChunkOverrun(rl, length) THEN ReadResult("overrun", rl, rt, <<>>, s)
    ELSE IF length < 0 THEN ReadResult("neg_read", rl - length, rt, <<>>, s)
    ELSE IF Len(s) < length THEN Blocked
    ELSE ReadResult("ok", rl - length, rt, SubSeq(s, 1, length), Drop(s, length))

----------------------------------------------------------------------------
(* Writer interface *)

\* the synchronisation word 0x5a5a5a5a packed in front of every frame
SYNC_WORD == 1515870810

\* variant: _write_header keeps the chunks of the previous message
BufferAfterHeader_Keep(wb) == wb

\* _write_buffer after _write_header
BufferAfterHeader(wb) == <<>>

\* _write_buffer after _write_flush: the method assigns nothing to it
BufferAfterFlush(wb) == wb

\* the write() calls of _write_flush: the packed header, then every chunk
FlushWrites(wt, wb) ==
    <<Pack32(SYNC_WORD) \o Pack32(HEADER_SIZE + SumLen(wb)) \o PackB(wt)>> \o wb

\* _write_flush: [out, tx, write_buffer]; self._write_type.value raises
\* AttributeError on None, before anything is written
WriteFlush(wt, wb) ==
    IF wt = NoneType
    THEN [out |-> "AttributeError", tx |-> <<>>, write_buffer |-> wb]
    ELSE [out |-> "ok", tx |-> FlushWrites(wt, wb),
          write_buffer |-> BufferAfterFlush(wb)]

\* struct.pack(">q", v) for the values of the model, all within 32 bits
Pack64(v) ==
    (IF v < 0 THEN <<255, 255, 255, 255>> ELSE <<0, 0, 0, 0>>) \o Pack32(v)

RECURSIVE Utf8Encode(_)
\* str.encode("utf-8") of a string given as code points below 2048
Utf8Encode(str) ==
    IF str = <<>> THEN <<>>
    ELSE (IF Head(str) < 128 THEN <<Head(str)>>
          ELSE <<192 + (Head(str) \div 64), 128 + (Head(str) % 64)>>)
         \o Utf8Encode(Tail(str))

\* the chunks _write_bytes(value) appends: the int32 length, then the value
BytesChunks(value) == <<Pack32(Len(value)), value>>

\* the chunks _write_string(value) appends
StringChunks(value) == BytesChunks(Utf8Encode(value) \o <<0>>)

----------------------------------------------------------------------------
(* Typed decoders.  A decoder takes the remaining body length rl and the   *)
(* unread bytes s, and gives [out, rl, s, val]: the outcome, both after    *)
(* the reads it made, and the value decoded.                               *)

\* _read_chunk as a decoder
Chunk(rl, s, length) ==
    LET r == ReadChunk(rl, NoneType, s, length)
    IN  [out |-> r.out, rl |-> r.read_length, s |-> r.rx, val |-> r.data]

\* a decoder's result with another value
WithVal(d, v) == [out |-> d.out, rl |-> d.rl, s |-> d.s, val |-> v]

\* a decoder's result turned into the failure out
Fails(d, out) == [out |-> out, rl |-> d.rl, s |-> d.s, val |-> <<>>]

\* d, then F on what d decoded; an exception in d ends both
Bind(d, F(_)) == IF d.out # "ok" THEN d ELSE F(d)

\* struct.unpack(">q", b) for the values of the model, all within 32 bits
Unpack64(b) == Unpack32(SubSeq(b, 5, 8))

\* _read_int8
ReadInt8(rl, s) == Bind(Chunk(rl, s, 1), LAMBDA c : WithVal(c, c.val[1]))

\* _read_int32
ReadInt32(rl, s) == Bind(Chunk(rl, s, 4), LAMBDA c : WithVal(c, Unpack32(c.val)))

\* _read_int64
ReadInt64(rl, s) == Bind(Chunk(rl, s, 8), LAMBDA c : WithVal(c, Unpack64(c.val)))

\* _read_float64: the value is kept as its 8 bytes
ReadFloat64(rl, s) == Chunk(rl, s, 8)

\* _read_bytes
ReadBytes(rl, s) == Bind(ReadInt32(rl, s), LAMBDA n : Chunk(n.rl, n.s, n.val))

\* b[:-1]
DropLast(b) == IF b = <<>> THEN <<>> ELSE SubSeq(b, 1, Len(b) - 1)

\* the code points cp, or <<-1>> when those after it could not be decoded
Decoded(cp, after) == IF after = <<-1>> THEN after ELSE cp \o after

RECURSIVE Utf8Decode(_)
\* bytes.decode("utf-8") for code points below 2048: the code points, or
\* <<-1>> for UnicodeDecodeError
Utf8Decode(b) ==
    IF b = <<>> THEN <<>>
    ELSE IF b[1] < 128
         THEN Decoded(<<b[1]>>, Utf8Decode(Tail(b)))
    ELSE IF b[1] \in 194..223 /\ Len(b) >= 2 /\ b[2] \in 128..191
         THEN Decoded(<<(b[1] - 192) * 64 + (b[2] - 128)>>, Utf8Decode(Tail(Tail(b))))
    ELSE <<-1>>

\* the string of the bytes read, or UnicodeDecodeError
StringOf(b, str) ==
    IF str = <<-1>> THEN Fails(b, "UnicodeDecodeError") ELSE WithVal(b, str)

\* _read_string
ReadString(rl, s) ==
    Bind(ReadBytes(rl, s), LAMBDA b : StringOf(b, Utf8Decode(DropLast(b.val))))

----------------------------------------------------------------------------
(* RPC values *)

TAG_TUPLE == 116
TAG_NONE == 110
TAG_BOOL == 98
TAG_INT32 == 105
TAG_INT64 == 73
TAG_FLOAT64 == 102
TAG_FRACTION == 70
TAG_STRING == 115
TAG_LIST == 108
TAG_RANGE == 114
TAG_OBJECT == 111

\* _rpc_sentinel
Sentinel == [t |-> "sentinel"]

Abs(n) == IF n < 0 THEN -n ELSE n

RECURSIVE Gcd(_, _)
Gcd(a, b) == IF b = 0 THEN a ELSE Gcd(b, a % b)

\* Fraction(numerator, denominator): lowest terms, the sign on the
\* numerator; the caller has excluded denominator = 0
Fraction(numerator, denominator) ==
    LET g == Gcd(Abs(numerator), Abs(denominator))
        sign == IF denominator < 0 THEN -1 ELSE 1
    IN  [t |-> "fraction", num |-> sign * (numerator \div g),
         den |-> Abs(denominator) \div g]

\* the value can be an argument of range(): an int or a bool
IsIndex(v) == v.t \in {"int", "bool"}

\* the int a range() argument stands for
IndexOf(v) == IF v.t = "bool" THEN (IF v.v THEN 1 ELSE 0) ELSE v.v

\* range(lower, upper, step) of the three values decoded
RangeOf(e) ==
    IF \E k \in 1..3 : ~IsIndex(e.val[k]) THEN Fails(e, "TypeError")
    ELSE IF IndexOf(e.val[3]) = 0 THEN Fails(e, "ValueError")
    ELSE WithVal(e, [t |-> "range", lower |-> IndexOf(e.val[1]),
                     upper |-> IndexOf(e.val[2]), step |-> IndexOf(e.val[3])])

\* Fraction(numerator, denominator) of the two int64 decoded
FractionOf(numerator, denominator) ==
    IF denominator.val = 0 THEN Fails(denominator, "ZeroDivisionError")
    ELSE WithVal(denominator, Fraction(numerator.val, denominator.val))

\* rpc_map[index]
ObjectOf(rpc_map, index) ==
    IF index.val \notin DOMAIN rpc_map THEN Fails(index, "KeyError")
    ELSE WithVal(index, [t |-> "object", v |-> index.val])

RECURSIVE ReceiveRpcValue(_, _, _)
RECURSIVE ReceiveRpcValues(_, _, _, _, _)
RECURSIVE ValueOfTag(_, _)

\* _receive_rpc_value
ReceiveRpcValue(rpc_map, rl, s) ==
    Bind(ReadInt8(rl, s), LAMBDA tag : ValueOfTag(rpc_map, tag))

\* the branches of _receive_rpc_value on the tag read
ValueOfTag(rpc_map, tag) ==
    IF tag.val = 0 THEN WithVal(tag, Sentinel)
    ELSE IF tag.val = TAG_TUPLE THEN
        Bind(ReadInt8(tag.rl, tag.s), LAMBDA length :
        Bind(ReceiveRpcValues(rpc_map, length.rl, length.s, length.val, <<>>),
             LAMBDA e : WithVal(e, [t |-> "tuple", v |-> e.val])))
    ELSE IF tag.val = TAG_NONE THEN WithVal(tag, [t |-> "none"])
    ELSE IF tag.val = TAG_BOOL THEN
        Bind(ReadInt8(tag.rl, tag.s),
             LAMBDA b : WithVal(b, [t |-> "bool", v |-> b.val # 0]))
    ELSE IF tag.val = TAG_INT32 THEN
        Bind(ReadInt32(tag.rl, tag.s),
             LAMBDA i : WithVal(i, [t |-> "int", v |-> i.val]))
    ELSE IF tag.val = TAG_INT64 THEN
        Bind(ReadInt64(tag.rl, tag.s),
             LAMBDA i : WithVal(i, [t |-> "int", v |-> i.val]))
    ELSE IF tag.val = TAG_FLOAT64 THEN
        Bind(ReadFloat64(tag.rl, tag.s),
             LAMBDA f : WithVal(f, [t |-> "float", v |-> f.val]))
    ELSE IF tag.val = TAG_FRACTION THEN
        Bind(ReadInt64(tag.rl, tag.s), LAMBDA numerator :
        Bind(ReadInt64(numerator.rl, numerator.s),
             LAMBDA denominator : FractionOf(numerator, denominator)))
    ELSE IF tag.val = TAG_STRING THEN
        Bind(ReadString(tag.rl, tag.s),
             LAMBDA str : WithVal(str, [t |-> "str", v |-> str.val]))
    ELSE IF tag.val = TAG_LIST THEN
        Bind(ReadInt32(tag.rl, tag.s), LAMBDA length :
        Bind(ReceiveRpcValues(rpc_map, length.rl, length.s, length.val, <<>>),
             LAMBDA e : WithVal(e, [t |-> "list", v |-> e.val])))
    ELSE IF tag.val = TAG_RANGE THEN
        Bind(ReceiveRpcValues(rpc_map, tag.rl, tag.s, 3, <<>>), LAMBDA e : RangeOf(e))
    ELSE IF tag.val = TAG_OBJECT THEN
        Bind(ReadInt32(tag.rl, tag.s), LAMBDA index : ObjectOf(rpc_map, index))
    ELSE Fails(tag, "unknown_tag")

\* "self._receive_rpc_value(rpc_map) for _ in range(length)": the values
\* decoded one after the other, appended to acc
ReceiveRpcValues(rpc_map, rl, s, length, acc) ==
    IF length <= 0 THEN [out |-> "ok", rl |-> rl, s |-> s, val |-> acc]
    ELSE Bind(ReceiveRpcValue(rpc_map, rl, s), LAMBDA v :
              ReceiveRpcValues(rpc_map, v.rl, v.s, length - 1, Append(acc, v.val)))

RECURSIVE ReceiveRpcArgsFrom(_, _, _, _)
\* the loop of _receive_rpc_args, with the arguments collected so far
ReceiveRpcArgsFrom(rpc_map, rl, s, args) ==
    Bind(ReceiveRpcValue(rpc_map, rl, s), LAMBDA value :
         IF value.val = Sentinel THEN WithVal(value, args)
         ELSE ReceiveRpcArgsFrom(rpc_map, value.rl, value.s, Append(args, value.val)))

\* _receive_rpc_args
ReceiveRpcArgs(rpc_map, rl, s) == ReceiveRpcArgsFrom(rpc_map, rl, s, <<>>)

----------------------------------------------------------------------------
(* The serve loop *)

\* whether the name ARTIQException is bound in the module's namespace: the
\* module imports struct, logging, traceback, Enum, Fraction and
\* artiq.language.core as core_language, and defines no such name
ARTIQExceptionBound == FALSE

\* an integer of any size as hi * 65536 + lo, 0 <= lo < 65536
Wide(hi, lo) == [hi |-> hi, lo |-> lo]

\* a < b on such integers
WideLess(a, b) == a.hi < b.hi \/ (a.hi = b.hi /\ a.lo < b.lo)

\* isinstance(result, int): Python's bool is an int
IsInstanceInt(result) == result.t \in {"int", "bool"}

\* the integer a result stands for
ResultInt(result) ==
    IF result.t = "bool" THEN Wide(0, IF result.v THEN 1 ELSE 0) ELSE result.w

\* -2**31 < result < 2**31-1
ResultInRange(w) ==
    WideLess(Wide(-32768, 0), w) /\ WideLess(w, Wide(32767, 65535))

\* struct.pack(">l", w) of an integer that fits 32 bits
Pack32Wide(w) ==
    LET h == IF w.hi < 0 THEN w.hi + 65536 ELSE w.hi
    IN  <<h \div 256, h % 256, w.lo \div 256, w.lo % 256>>

RECURSIVE Str(_)
\* str(n) of an integer, as code points
Str(n) ==
    IF n < 0 THEN <<45>> \o Str(-n)
    ELSE IF n < 10 THEN <<48 + n>>
    ELSE Str(n \div 10) \o <<48 + (n % 10)>>

\* "KeyError", "TypeError", "ValueError" and "_serve_rpc" as code points
KeyErrorName == <<75, 101, 121, 69, 114, 114, 111, 114>>
TypeErrorName == <<84, 121, 112, 101, 69, 114, 114, 111, 114>>
ValueErrorName == <<86, 97, 108, 117, 101, 69, 114, 114, 111, 114>>
ServeRpcName == <<95, 115, 101, 114, 118, 101, 95, 114, 112, 99>>

\* "An RPC must return an int(width=32)"
ResultMessage ==
    <<65, 110, 32, 82, 80, 67, 32, 109, 117, 115, 116, 32, 114,
      101, 116, 117, 114, 110, 32, 97, 110, 32, 105, 110, 116,
      40, 119, 105, 100, 116, 104, 61, 51, 50, 41>>

\* str() of the TypeError of calling rpc_map[service] when it is an object
\* that is no callable: "'object' object is not callable"
NotCallableMessage ==
    <<39, 111, 98, 106, 101, 99, 116, 39, 32, 111, 98, 106, 101,
      99, 116, 32, 105, 115, 32, 110, 111, 116, 32, 99, 97, 108,
      108, 97, 98, 108, 101>>

\* paths this module can be loaded from, "comm_generic.py" and
\* "/artiq/coredevice/comm_generic.py": the file name of the entry of
\* _serve_rpc in a traceback is the path of the running interpreter's copy
ModuleFiles ==
    {<<99, 111, 109, 109, 95, 103, 101, 110, 101, 114, 105, 99, 46, 112, 121>>,
     <<47, 97, 114, 116, 105, 113, 47, 99, 111, 114, 101, 100, 101, 118, 105, 99,
       101, 47, 99, 111, 109, 109, 95, 103, 101, 110, 101, 114, 105, 99, 46, 112,
       121>>}

\* an exception raised in the try block: its type, type(exn).__name__,
\* str(exn), the file name and the line of the entry of _serve_rpc in
\* traceback.extract_tb(exn.__traceback__), the number of entries of that
\* traceback, and the remote exception's fields when it is one
Raised(exc, name, message, filename, line, entries, exn) ==
    [exc |-> exc, name |-> name, message |-> message, filename |-> filename,
     line |-> line, entries |-> entries, exn |-> exn]

\* what the try block of _serve_rpc raises, of type "none" when nothing.
\* call is what rpc_map[service](*args) does when it is reached, and the
\* path call.file this module was loaded from: the traceback of what is
\* raised holds the frame of _serve_rpc, in that file, and then the
\* callable's own frames.
TryRaises(rpc_map, service, call) ==
    IF service \notin DOMAIN rpc_map
    THEN Raised("KeyError", KeyErrorName, Str(service), call.file, 331, 1, "none")
    ELSE IF rpc_map[service] # "callable"
    THEN Raised("TypeError", TypeErrorName, NotCallableMessage, call.file, 331, 1,
                "none")
    ELSE IF call.kind = "raise"
    THEN Raised(call.exc, call.exn.name, call.exn.message, call.file, 331,
                1 + call.frames, call.exn)
    ELSE IF ~IsInstanceInt(call.result) \/ ~ResultInRange(ResultInt(call.result))
    THEN Raised("ValueError", ValueErrorName, ResultMessage, call.file, 333, 1,
                "none")
    ELSE Raised("none", <<>>, <<>>, <<>>, 0, 0, "none")

\* the body of the RPC_EXCEPTION message for an ARTIQException
RemoteExceptionChunks(exn) ==
    StringChunks(exn.name) \o StringChunks(exn.message)
        \o <<Pack64(exn.param[1]), Pack64(exn.param[2]), Pack64(exn.param[3])>>
        \o StringChunks(exn.filename)
        \o <<Pack32(exn.line), Pack32(exn.column)>>
        \o StringChunks(exn.function)

\* the chunks the handler of the other exceptions appends before it looks
\* at the traceback
LocalExceptionHead(raised) ==
    StringChunks(raised.name) \o StringChunks(raised.message)
        \o <<Pack64(0), Pack64(0), Pack64(0)>>

\* the chunks it appends after that
LocalExceptionTail(raised) ==
    StringChunks(raised.filename) \o <<Pack32(raised.line), Pack32(-1)>>
        \o StringChunks(ServeRpcName)

\* no call of a callable was made
NoCall == [made |-> FALSE]

\* the result of a step of serve: the outcome, the reader and writer state
\* after it, the writes made, and the call made (service, args, call) if any
ServeResult(out, rl, rt, s, wt, wb, writes, called) ==
    [out |-> out, read_length |-> rl, read_type |-> rt, rx |-> s,
     write_type |-> wt, write_buffer |-> wb, tx |-> writes, called |-> called]

\* serve raises what the decoder d raised
ServeFails(d, rt, wt, wb) ==
    ServeResult(d.out, d.rl, rt, d.s, wt, wb, <<>>, NoCall)

\* the result of writing the writes w of a flushed message of kind ty
Replied(rl, rt, s, ty, w, called) ==
    ServeResult("ok", rl, rt, s, ty, w.write_buffer, w.tx, called)

\* _write_header(ty), the appends of chunks, _write_flush
Replies(rl, rt, s, wb, ty, chunks, called) ==
    Replied(rl, rt, s, ty, WriteFlush(ty, BufferAfterHeader(wb) \o chunks), called)

\* the except and else clauses of _serve_rpc, raised being what the try
\* block raised
ServeRpcHandlers(rl, rt, s, wt, wb, result, raised, called) ==
    IF raised.exc = "none" THEN
        Replies(rl, rt, s, wb, RPC_REPLY, <<Pack32Wide(ResultInt(result))>>, called)
    ELSE IF ~ARTIQExceptionBound THEN
        ServeResult("NameError", rl, rt, s, wt, wb, <<>>, called)
    ELSE IF raised.exc = "ARTIQException" THEN
        Replies(rl, rt, s, wb, RPC_EXCEPTION, RemoteExceptionChunks(raised.exn),
                called)
    ELSE IF raised.entries # 1 THEN
        ServeResult("ValueError", rl, rt, s, RPC_EXCEPTION,
                    BufferAfterHeader(wb) \o LocalExceptionHead(raised), <<>>, called)
    ELSE
        Replies(rl, rt, s, wb, RPC_EXCEPTION,
                LocalExceptionHead(raised) \o LocalExceptionTail(raised), called)

\* the record of a call: the service, the arguments, what the callable
\* does, and the type of what the try block raised
Called(service, args, call, raised) ==
    [made |-> TRUE, service |-> service, args |-> args, call |-> call,
     raised |-> raised.exc]

\* _serve_rpc from the try statement on
ServeRpcCall(rpc_map, rl, rt, s, wt, wb, service, args, call) ==
    ServeRpcHandlers(rl, rt, s, wt, wb,
                     IF call.kind = "return" THEN call.result ELSE [t |-> "none"],
                     TryRaises(rpc_map, service, call),
                     Called(service, args, call, TryRaises(rpc_map, service, call)))

\* _serve_rpc once the arguments are decoded
ServeRpcArgs(rpc_map, rt, wt, wb, service, args, call) ==
    IF args.out # "ok" THEN ServeFails(args, rt, wt, wb)
    ELSE ServeRpcCall(rpc_map, args.rl, rt, args.s, wt, wb, service.val, args.val,
                      call)

\* _serve_rpc once the service index is decoded
ServeRpcService(rpc_map, rt, wt, wb, service, call) ==
    IF service.out # "ok" THEN ServeFails(service, rt, wt, wb)
    ELSE ServeRpcArgs(rpc_map, rt, wt, wb, service,
                      ReceiveRpcArgs(rpc_map, service.rl, service.s), call)

\* _serve_rpc after a header of kind rt
ServeRpc(rpc_map, rl, rt, s, wt, wb, call) ==
    ServeRpcService(rpc_map, rt, wt, wb, ReadInt32(rl, s), call)

\* the typed read named by a format character: "s" string, "q" int64,
\* "l" int32
ReadField(rl, s, f) ==
    IF f = "s" THEN ReadString(rl, s)
    ELSE IF f = "q" THEN ReadInt64(rl, s)
    ELSE ReadInt32(rl, s)

RECURSIVE ReadFields(_, _, _, _)
\* the typed reads named by fmt, one after the other, appended to acc
ReadFields(rl, s, fmt, acc) ==
    IF fmt = <<>> THEN [out |-> "ok", rl |-> rl, s |-> s, val |-> acc]
    ELSE Bind(ReadField(rl, s, Head(fmt)), LAMBDA f :
              ReadFields(f.rl, f.s, Tail(fmt), Append(acc, f.val)))

\* the reads of _serve_exception, in order: name, message, params,
\* filename, line, column, function
ExceptionFormat == <<"s", "s", "q", "q", "q", "s", "l", "l", "s">>

\* variant: the addresses of the backtrace are left unread
AddressFormat_None(count) == <<>>

\* count reads of an int32: "self._read_int32() for _ in range(count)"
AddressFormat(count) == [k \in 1..(IF count > 0 THEN count ELSE 0) |-> "l"]

\* serve raises the ARTIQException of the fields and backtrace read
RaisesRemote(rt, wt, wb, fields, backtrace) ==
    IF backtrace.out # "ok" THEN ServeFails(backtrace, rt, wt, wb)
    ELSE ServeResult("ARTIQException", backtrace.rl, rt, backtrace.s, wt, wb, <<>>,
                     [made |-> FALSE, exn |-> fields.val,
                      backtrace |-> backtrace.val])

\* _serve_exception once the backtrace length is read
ServeExceptionBacktrace(rt, wt, wb, fields, count) ==
    IF count.out # "ok" THEN ServeFails(count, rt, wt, wb)
    ELSE RaisesRemote(rt, wt, wb, fields,
                      ReadFields(count.rl, count.s, AddressFormat(count.val), <<>>))

\* _serve_exception once the fields of the exception are read
ServeExceptionFields(rt, wt, wb, fields) ==
    IF fields.out # "ok" THEN ServeFails(fields, rt, wt, wb)
    ELSE ServeExceptionBacktrace(rt, wt, wb, fields, ReadInt32(fields.rl, fields.s))

\* _serve_exception: it always raises, ARTIQException once all is read
ServeException(rl, rt, s, wt, wb) ==
    ServeExceptionFields(rt, wt, wb, ReadFields(rl, s, ExceptionFormat, <<>>))

\* the body of the loop of serve after its _read_header
ServeDispatch(rpc_map, h, wt, wb, call) ==
    IF h.out # "ok"
    THEN ServeResult(h.out, h.read_length, h.read_type, h.rx, wt, wb, <<>>, NoCall)
    ELSE IF h.read_type = RPC_REQUEST
    THEN ServeRpc(rpc_map, h.read_length, h.read_type, h.rx, wt, wb, call)
    ELSE IF h.read_type = KERNEL_EXCEPTION
    THEN ServeException(h.read_length, h.read_type, h.rx, wt, wb)
    ELSE IF ReadExpect(h.read_type, KERNEL_FINISHED) # "ok"
    THEN ServeResult("mismatch", h.read_length, h.read_type, h.rx, wt, wb, <<>>, NoCall)
    ELSE ServeResult("return", h.read_length, h.read_type, h.rx, wt, wb, <<>>, NoCall)

\* one pass of the loop of serve: "ok" when the loop goes on to the next
\* header, "return" when serve returns, else the exception serve raises
ServeStep(rpc_map, rl, rt, s, wt, wb, call) ==
    ServeDispatch(rpc_map, ReadHeader(rl, rt, s), wt, wb, call)

----------------------------------------------------------------------------
(* Exported APIs.  Each writes its request, then reads the reply; its      *)
(* result gives the outcome, the reader and writer state after it, the     *)
(* write() calls made, the value returned and, for a mismatch, the kinds   *)
(* the error message carries.                                              *)

\* no kinds: the operation did not fail in _read_expect
NoKinds == [observed |-> NoneType, expected |-> NoneType]

\* the kinds formatted into the message of _read_expect's error
Mismatch(rt, ty) == [observed |-> rt, expected |-> ty]

\* the result of an exported operation whose last read left the reader as
\* in h, after the request w
ApiResult(out, h, w, val, kinds) ==
    [out |-> out, read_length |-> h.read_length, read_type |-> h.read_type,
     rx |-> h.rx, write_type |-> w.write_type, write_buffer |-> w.write_buffer,
     tx |-> w.tx, val |-> val, kinds |-> kinds]

\* variant: the request is prepared and never flushed
Request_Unflushed(wb, ty, chunks) ==
    [write_type |-> ty, write_buffer |-> BufferAfterHeader(wb) \o chunks,
     tx |-> <<>>]

\* _write_header(ty), the appends of chunks, _write_flush
Request(wb, ty, chunks) ==
    [write_type |-> ty,
     write_buffer |-> WriteFlush(ty, BufferAfterHeader(wb) \o chunks).write_buffer,
     tx |-> WriteFlush(ty, BufferAfterHeader(wb) \o chunks).tx]

\* _read_expect(ty) on the header read h, then Then on it; an exception of
\* _read_header or of _read_expect ends the operation
ExpectReply(h, ty, w, Then(_)) ==
    IF h.out # "ok" THEN ApiResult(h.out, h, w, <<>>, NoKinds)
    ELSE IF ReadExpect(h.read_type, ty) # "ok"
    THEN ApiResult("mismatch", h, w, <<>>, Mismatch(h.read_type, ty))
    ELSE Then(h)

\* _read_empty(ty) after the request w
ReadEmpty(h, ty, w) ==
    ExpectReply(h, ty, w, LAMBDA r : ApiResult("ok", r, w, <<>>, NoKinds))

\* self._read_chunk(self._read_length)
ReadRest(h) == ReadChunk(h.read_length, h.read_type, h.rx, h.read_length)

\* reset_session: its one write, struct.pack(">ll", 0x5a5a5a5a, 0)
ResetSession == <<Pack32(SYNC_WORD) \o Pack32(0)>>

\* b"AROR"
RUNTIME_ID == <<65, 82, 79, 82>>

\* variant: only the first byte of the runtime ID is compared
RuntimeIdDiffers_FirstByte(runtime_id) == runtime_id[1] # RUNTIME_ID[1]

\* runtime_id != b"AROR"
RuntimeIdDiffers(runtime_id) == runtime_id # RUNTIME_ID

\* check_ident once the 4 bytes of the runtime ID are read
CheckRuntimeId(c, w) ==
    IF c.out # "ok" THEN ApiResult(c.out, c, w, <<>>, NoKinds)
    ELSE IF RuntimeIdDiffers(c.data)
    THEN ApiResult("UnsupportedDevice", c, w, c.data, NoKinds)
    ELSE ApiResult("ok", c, w, <<>>, NoKinds)

\* check_ident
CheckIdent(rl, rt, s, wb) ==
    ExpectReply(ReadHeader(rl, rt, s), IDENT_REPLY,
                Request(wb, IDENT_REQUEST, <<>>),
                LAMBDA h : CheckRuntimeId(
                    ReadChunk(h.read_length, h.read_type, h.rx, 4),
                    Request(wb, IDENT_REQUEST, <<>>)))

\* switch_clock(external)
SwitchClock(rl, rt, s, wb, external) ==
    ReadEmpty(ReadHeader(rl, rt, s), CLOCK_SWITCH_COMPLETED,
              Request(wb, SWITCH_CLOCK, <<PackB(external)>>))

\* get_log once the body is read: its decoding
LogOf(c, w, str) ==
    IF c.out # "ok" THEN ApiResult(c.out, c, w, <<>>, NoKinds)
    ELSE IF str = <<-1>> THEN ApiResult("UnicodeDecodeError", c, w, <<>>, NoKinds)
    ELSE ApiResult("ok", c, w, str, NoKinds)

\* get_log
GetLog(rl, rt, s, wb) ==
    ExpectReply(ReadHeader(rl, rt, s), LOG_REPLY, Request(wb, LOG_REQUEST, <<>>),
                LAMBDA h : LogOf(ReadRest(h), Request(wb, LOG_REQUEST, <<>>),
                                 Utf8Decode(ReadRest(h).data)))

\* an operation that returns the chunk c it read last
Returns(c, w) ==
    ApiResult(c.out, c, w, IF c.out = "ok" THEN c.data ELSE <<>>, NoKinds)

\* flash_storage_read(key)
FlashStorageRead(rl, rt, s, wb, key) ==
    ExpectReply(ReadHeader(rl, rt, s), FLASH_READ_REPLY,
                Request(wb, FLASH_READ_REQUEST, StringChunks(key)),
                LAMBDA h : Returns(ReadRest(h),
                                   Request(wb, FLASH_READ_REQUEST, StringChunks(key))))

\* variant: the error reply is not told apart
IsFlashError_Never(rt) == FALSE

\* self._read_type == _D2HMsgType.FLASH_ERROR_REPLY
IsFlashError(rt) == rt = FLASH_ERROR_REPLY

\* flash_storage_write after its request w and its _read_header h
FlashWriteReply(h, w) ==
    IF h.out # "ok" THEN ApiResult(h.out, h, w, <<>>, NoKinds)
    ELSE IF IsFlashError(h.read_type)
    THEN ApiResult("storage_full", h, w, <<>>, NoKinds)
    ELSE ReadEmpty(h, FLASH_OK_REPLY, w)

\* flash_storage_write(key, value)
FlashStorageWrite(rl, rt, s, wb, key, value) ==
    FlashWriteReply(ReadHeader(rl, rt, s),
                    Request(wb, FLASH_WRITE_REQUEST,
                            StringChunks(key) \o BytesChunks(value)))

\* flash_storage_erase
FlashStorageErase(rl, rt, s, wb) ==
    ReadEmpty(ReadHeader(rl, rt, s), FLASH_OK_REPLY,
              Request(wb, FLASH_ERASE_REQUEST, <<>>))

\* flash_storage_remove(key)
FlashStorageRemove(rl, rt, s, wb, key) ==
    ReadEmpty(ReadHeader(rl, rt, s), FLASH_OK_REPLY,
              Request(wb, FLASH_REMOVE_REQUEST, StringChunks(key)))

\* load(kernel_library)
Load(rl, rt, s, wb, kernel_library) ==
    ReadEmpty(ReadHeader(rl, rt, s), LOAD_COMPLETED,
              Request(wb, LOAD_LIBRARY, <<kernel_library>>))

\* run: it reads nothing
Run(rl, rt, s, wb) ==
    ApiResult("ok", ReadResult("ok", rl, rt, <<>>, s),
              Request(wb, RUN_KERNEL, <<>>), <<>>, NoKinds)

----------------------------------------------------------------------------
(* History variables *)

\* no exported operation is inside its call
NotAwaiting == [op |-> "none", arg |-> <<>>]

NoLast ==
    [op |-> "none", prev |-> "none", out |-> "none", arg |-> 0, data |-> <<>>,
     rx0 |-> <<>>, rl0 |-> 0, rt0 |-> NoneType, wb0 |-> <<>>, call |-> NoCall]

\* the record of an operation taken from the current state
Op(op, out, arg, data, call) ==
    [op |-> op, prev |-> last.op, out |-> out, arg |-> arg, data |-> data,
     rx0 |-> rx, rl0 |-> read_length, rt0 |-> read_type, wb0 |-> write_buffer,
     call |-> call]

Init ==
    /\ read_type = NoneType
    /\ read_length = 0
    /\ write_type = NoneType
    /\ write_buffer = <<>>
    /\ rx = <<>>
    /\ tx = <<>>
    /\ pc = "idle"
    /\ awaiting = NotAwaiting
    /\ since_header = [kind |-> NoneType, chunks |-> <<>>]
    /\ last = NoLast

----------------------------------------------------------------------------
(* The device side of the reader-level specification *)

RECURSIVE SeqsUpTo(_, _)
\* the sequences over S of length at most n
SeqsUpTo(S, n) ==
    IF n = 0 THEN {<<>>}
    ELSE LET shorter == SeqsUpTo(S, n - 1)
         IN  shorter \cup {Append(q, x) : q \in shorter, x \in S}

\* bytes of the noise in front of a frame: one of them is the sync byte
NoiseBytes == {KERNEL_FINISHED, SYNC_BYTE}

\* declared lengths: negative, zero, too short, exact, with a body
FrameLengths == {-1, 0, 8, HEADER_SIZE, HEADER_SIZE + 1, HEADER_SIZE + 2}

\* kind bytes: two known kinds and a byte that is no kind
FrameKinds == {KERNEL_FINISHED, RPC_REQUEST, 200}

\* a frame as the device puts it on the wire
WireFrame(noise, length, kind, body) ==
    noise \o <<SYNC_BYTE, SYNC_BYTE, SYNC_BYTE, SYNC_BYTE>> \o Pack32(length)
          \o <<kind>> \o body

ReaderFrames ==
    {WireFrame(noise, length, kind, body) :
        noise \in SeqsUpTo(NoiseBytes, MaxNoise), length \in FrameLengths,
        kind \in FrameKinds, body \in SeqsUpTo({1}, MaxBody)}

\* the device sends one more frame
DeviceSend ==
    /\ Len(rx) <= MaxPending
    /\ \E f \in ReaderFrames : rx' = rx \o f
    /\ last' = [NoLast EXCEPT !.op = "device_send"]
    /\ UNCHANGED <<read_type, read_length, write_type, write_buffer, tx, pc, awaiting,
                   awaiting, since_header>>

----------------------------------------------------------------------------
(* Reader operations *)

DoReadHeader ==
    LET r == ReadHeader(read_length, read_type, rx) IN
    /\ r.out # "block"
    /\ read_length' = r.read_length
    /\ read_type' = r.read_type
    /\ rx' = r.rx
    /\ tx' = <<>>
    /\ last' = Op("read_header", r.out, 0, <<>>, NoCall)
    /\ UNCHANGED <<write_type, write_buffer, pc, awaiting, since_header>>

DoReadChunk ==
    \E length \in 0..MaxChunk :
      LET r == ReadChunk(read_length, read_type, rx, length) IN
      /\ read_length <= MaxRemaining
      /\ r.out # "block"
      /\ read_length' = r.read_length
      /\ read_type' = r.read_type
      /\ rx' = r.rx
      /\ tx' = <<>>
      /\ last' = Op("read_chunk", r.out, length, r.data, NoCall)
      /\ UNCHANGED <<write_type, write_buffer, pc, awaiting, since_header>>

NextReader == DeviceSend \/ DoReadHeader \/ DoReadChunk

SpecReader == Init /\ [][NextReader]_vars

----------------------------------------------------------------------------
(* Writer operations *)

\* kinds given to _write_header
WriterKinds == {IDENT_REQUEST, RPC_REPLY, RPC_EXCEPTION}

\* values given to the typed append operations
WriterInts == {-2, 0, 7, 258}

\* byte strings given to _write_chunk and _write_bytes
WriterBlobs == {<<>>, <<65>>, <<90, 0>>}

\* strings (code points) given to _write_string
WriterStrings == {<<>>, <<97>>, <<233>>}

\* an append operation: op appends chunks to the buffer and writes nothing
Appends(op, arg, chunks) ==
    /\ Len(write_buffer) + Len(chunks) <= MaxChunks
    /\ write_buffer' = write_buffer \o chunks
    /\ since_header' = [since_header EXCEPT !.chunks = @ \o chunks]
    /\ tx' = <<>>
    /\ last' = Op(op, "ok", arg, <<>>, NoCall)
    /\ UNCHANGED <<read_type, read_length, write_type, rx, pc, awaiting>>

DoWriteHeader ==
    \E ty \in WriterKinds :
      /\ write_type' = ty
      /\ write_buffer' = BufferAfterHeader(write_buffer)
      /\ since_header' = [kind |-> ty, chunks |-> <<>>]
      /\ tx' = <<>>
      /\ last' = Op("write_header", "ok", ty, <<>>, NoCall)
      /\ UNCHANGED <<read_type, read_length, rx, pc, awaiting>>

DoWriteFlush ==
    LET w == WriteFlush(write_type, write_buffer) IN
    /\ tx' = w.tx
    /\ write_buffer' = w.write_buffer
    /\ last' = Op("write_flush", w.out, 0, <<>>, NoCall)
    /\ UNCHANGED <<read_type, read_length, write_type, rx, pc, awaiting, since_header>>

DoWriteEmpty ==
    \E ty \in WriterKinds :
      LET w == WriteFlush(ty, BufferAfterHeader(write_buffer)) IN
      /\ write_type' = ty
      /\ write_buffer' = w.write_buffer
      /\ since_header' = [kind |-> ty, chunks |-> <<>>]
      /\ tx' = w.tx
      /\ last' = Op("write_empty", w.out, ty, <<>>, NoCall)
      /\ UNCHANGED <<read_type, read_length, rx, pc, awaiting>>

DoWriteChunk == \E chunk \in WriterBlobs : Appends("write_chunk", 0, <<chunk>>)

DoWriteInt8 == \E v \in {0, 1, 255} : Appends("write_int8", v, <<PackB(v)>>)

DoWriteInt32 == \E v \in WriterInts : Appends("write_int32", v, <<Pack32(v)>>)

DoWriteInt64 == \E v \in WriterInts : Appends("write_int64", v, <<Pack64(v)>>)

DoWriteBytes == \E value \in WriterBlobs : Appends("write_bytes", 0, BytesChunks(value))

DoWriteString == \E value \in WriterStrings : Appends("write_string", 0, StringChunks(value))

NextWriter ==
    \/ DoWriteHeader
    \/ DoWriteFlush
    \/ DoWriteEmpty
    \/ DoWriteChunk
    \/ DoWriteInt8
    \/ DoWriteInt32
    \/ DoWriteInt64
    \/ DoWriteBytes
    \/ DoWriteString

SpecWriter == Init /\ [][NextWriter]_vars

----------------------------------------------------------------------------
(* The serve loop and its device *)

\* the rpc_map of the session: index 3 is a callable, index 5 an object
\* that is no callable, no other index is mapped
RpcMap == [i \in {3, 5} |-> IF i = 3 THEN "callable" ELSE "object"]

\* results a callable returns: 7, -1, 2^31-2, 2^31-1, 2^31, -2^31, -2^31+1
\* as ints, True, and None
CallResults ==
    {[t |-> "int", w |-> w] :
        w \in {Wide(0, 7), Wide(-1, 65535), Wide(32767, 65534), Wide(32767, 65535),
               Wide(32768, 0), Wide(-32768, 0), Wide(-32768, 1)}}
    \cup {[t |-> "bool", v |-> TRUE], [t |-> "none"]}

\* a remote exception a callable raises
SomeRemoteException ==
    [name |-> <<69>>, message |-> <<>>, param |-> <<1, 0, -1>>,
     filename |-> <<102>>, line |-> 3, column |-> 4, function |-> <<103>>]

\* the path this module was loaded from in a run where the callable returns
ModuleFile == CHOOSE f \in ModuleFiles : Len(f) = 15

\* what a callable does when called, and the path this module was loaded
\* from: the callable returns a result, raises an ARTIQException, or raises
\* a RuntimeError from Python code (one frame of its own in the traceback)
\* or from a builtin (none)
Calls ==
    {[kind |-> "return", result |-> r, file |-> ModuleFile] : r \in CallResults}
    \cup {[kind |-> "raise", exc |-> "ARTIQException", frames |-> 1,
           exn |-> SomeRemoteException, file |-> f] : f \in ModuleFiles}
    \cup {[kind |-> "raise", exc |-> "RuntimeError", frames |-> n,
           exn |-> [name |-> <<82, 117, 110, 116, 105, 109, 101, 69, 114, 114, 111, 114>>,
                    message |-> <<>>],
           file |-> f] : n \in {0, 1}, f \in ModuleFiles}

\* most arguments of an RPC request the device sends
MaxArgs == 1

\* encoded arguments: int32 42, None, the tuple (True,), an unknown tag
ArgEncodings ==
    {<<TAG_INT32>> \o Pack32(42), <<TAG_NONE>>, <<TAG_TUPLE, 1, TAG_BOOL, 1>>, <<120>>}

\* the body of an RPC_REQUEST: service index, arguments, sentinel, and
\* whatever the device puts after it
RequestBody(service, args, trailing) ==
    Pack32(service) \o Flat(args) \o <<0>> \o trailing

\* the body of a KERNEL_EXCEPTION with a backtrace of one address
ExceptionBody ==
    Flat(RemoteExceptionChunks(SomeRemoteException)) \o Pack32(1) \o Pack32(258)

\* the frames the device sends to serve: RPC requests whose declared length
\* is that of the body or one less, and the frames that end the loop
ServeFrames ==
    {WireFrame(<<>>, HEADER_SIZE + Len(RequestBody(service, args, trailing)) - short,
               RPC_REQUEST, RequestBody(service, args, trailing)) :
        service \in {3, 4, 5}, args \in SeqsUpTo(ArgEncodings, MaxArgs),
        trailing \in {<<>>, <<0>>}, short \in {0, 1}}
    \cup {WireFrame(<<>>, HEADER_SIZE, KERNEL_FINISHED, <<>>),
          WireFrame(<<>>, HEADER_SIZE, LOG_REPLY, <<>>),
          WireFrame(<<>>, HEADER_SIZE + Len(ExceptionBody), KERNEL_EXCEPTION,
                    ExceptionBody),
          <<SYNC_BYTE, SYNC_BYTE, SYNC_BYTE, SYNC_BYTE, 0, 0, 0, 0>>}

\* the device sends one more frame to the serving host
DeviceSendServe ==
    /\ Len(rx) <= MaxPending
    /\ \E f \in ServeFrames : rx' = rx \o f
    /\ last' = [NoLast EXCEPT !.op = "device_send"]
    /\ UNCHANGED <<read_type, read_length, write_type, write_buffer, tx, pc, awaiting,
                   awaiting, since_header>>

\* what the callable may do in a pass of the loop of serve that begins in
\* this state: all of Calls when the pass enters the try block of
\* _serve_rpc, and one of them, which goes unused, when it does not
CallsOf(rpc_map, rl, rt, s, wt, wb) ==
    LET call == CHOOSE c \in Calls : TRUE IN
    IF ServeStep(rpc_map, rl, rt, s, wt, wb, call).called.made THEN Calls
    ELSE {call}

\* one pass of the loop of serve, the first one being the call of serve
DoServe ==
    \E call \in CallsOf(RpcMap, read_length, read_type, rx, write_type,
                        write_buffer) :
      LET r == ServeStep(RpcMap, read_length, read_type, rx, write_type,
                         write_buffer, call) IN
      /\ awaiting = NotAwaiting
      /\ r.out # "block"
      /\ read_length' = r.read_length
      /\ read_type' = r.read_type
      /\ rx' = r.rx
      /\ write_type' = r.write_type
      /\ write_buffer' = r.write_buffer
      /\ tx' = r.tx
      /\ pc' = IF r.out = "ok" THEN "serving"
               ELSE IF r.out = "return" THEN "returned" ELSE "raised"
      /\ since_header' = [kind |-> r.write_type, chunks |-> r.write_buffer]
      /\ last' = Op("serve", r.out, 0, <<>>, r.called)
      /\ UNCHANGED awaiting

NextServe == DeviceSendServe \/ DoServe

SpecServe == Init /\ [][NextServe]_vars

----------------------------------------------------------------------------
(* The exported APIs and their device *)

\* bodies of the replies the device sends: none, one byte, the runtime ID,
\* four other bytes, the runtime ID and one byte more
ReplyBodies ==
    {<<>>, <<65>>, RUNTIME_ID, <<65, 82, 79, 88>>, RUNTIME_ID \o <<33>>}

\* kinds of the replies the device sends
ReplyKinds ==
    {LOG_REPLY, IDENT_REPLY, CLOCK_SWITCH_COMPLETED, LOAD_COMPLETED,
     KERNEL_FINISHED, FLASH_READ_REPLY, FLASH_OK_REPLY, FLASH_ERROR_REPLY}

\* the reply frames: the declared length is that of the frame
ApiFrames ==
    {WireFrame(<<>>, HEADER_SIZE + Len(body), kind, body) :
        kind \in ReplyKinds, body \in ReplyBodies}
    \cup {WireFrame(<<>>, HEADER_SIZE + 5, RPC_REQUEST, RequestBody(3, <<>>, <<>>))}

\* keys given to the flash storage operations
ApiKeys == {<<>>, <<107>>}

\* values given to flash_storage_write, and kernel libraries given to load
ApiBlobs == {<<>>, <<127, 69>>}

\* the device sends one more reply frame
DeviceReply ==
    /\ Len(rx) <= MaxPending
    /\ \E f \in ApiFrames : rx' = rx \o f
    /\ last' = [NoLast EXCEPT !.op = "device_send"]
    /\ UNCHANGED <<read_type, read_length, write_type, write_buffer, tx, pc, awaiting,
                   awaiting, since_header>>

\* the record of an exported operation in the history: its argument, the
\* remaining length and the unread bytes it started from
ApiOp(op, out, arg, val, kinds) ==
    [Op(op, out, arg, val, [made |-> FALSE, kinds |-> kinds])
        EXCEPT !.prev = "none", !.rt0 = NoneType, !.wb0 = <<>>]

\* the exported operation op is called with arg, r being what it does with
\* the bytes in rx. It writes its request first. When the bytes of the reply
\* are there it then reads them and returns or raises. When nothing is there
\* it waits in the first read() of _read_header, the request written and
\* nothing read: the device answers and DoReply goes on from there.
ApiStep(op, arg, r) ==
    /\ pc # "serving"
    /\ awaiting = NotAwaiting
    /\ r.out = "block" => rx = <<>>
    /\ read_length' = IF r.out = "block" THEN read_length ELSE r.read_length
    /\ read_type' = IF r.out = "block" THEN read_type ELSE r.read_type
    /\ rx' = IF r.out = "block" THEN rx ELSE r.rx
    /\ write_type' = r.write_type
    /\ write_buffer' = r.write_buffer
    /\ tx' = r.tx
    /\ since_header' = [kind |-> r.write_type, chunks |-> r.write_buffer]
    /\ awaiting' = IF r.out = "block" THEN [op |-> op, arg |-> arg] ELSE NotAwaiting
    /\ last' = IF r.out = "block" THEN ApiOp(op, "waits", arg, <<>>, NoKinds)
               ELSE ApiOp(op, r.out, arg, r.val, r.kinds)
    /\ UNCHANGED pc

\* reset_session: one write of the synchronization word and a length of
\* zero, and nothing else
DoResetSession ==
    /\ pc # "serving"
    /\ awaiting = NotAwaiting
    /\ tx' = ResetSession
    /\ last' = ApiOp("reset_session", "ok", <<>>, <<>>, NoKinds)
    /\ UNCHANGED <<read_length, read_type, rx, write_type, write_buffer,
                   since_header, pc, awaiting>>

DoCheckIdent ==
    ApiStep("check_ident", <<>>, CheckIdent(read_length, read_type, rx, write_buffer))

DoSwitchClock ==
    \E external \in {0, 1} :
      ApiStep("switch_clock", <<external>>,
              SwitchClock(read_length, read_type, rx, write_buffer, external))

DoGetLog ==
    ApiStep("get_log", <<>>, GetLog(read_length, read_type, rx, write_buffer))

DoFlashStorageRead ==
    \E key \in ApiKeys :
      ApiStep("flash_storage_read", <<key>>,
              FlashStorageRead(read_length, read_type, rx, write_buffer, key))

DoFlashStorageWrite ==
    \E key \in ApiKeys, value \in ApiBlobs :
      ApiStep("flash_storage_write", <<key, value>>,
              FlashStorageWrite(read_length, read_type, rx, write_buffer, key, value))

DoFlashStorageErase ==
    ApiStep("flash_storage_erase", <<>>,
            FlashStorageErase(read_length, read_type, rx, write_buffer))

DoFlashStorageRemove ==
    \E key \in ApiKeys :
      ApiStep("flash_storage_remove", <<key>>,
              FlashStorageRemove(read_length, read_type, rx, write_buffer, key))

DoLoad ==
    \E kernel_library \in ApiBlobs :
      ApiStep("load", <<kernel_library>>,
              Load(read_length, read_type, rx, write_buffer, kernel_library))

DoRun == ApiStep("run", <<>>, Run(read_length, read_type, rx, write_buffer))

\* what the exported operation op called with arg does with the bytes in rx
Resumed(op, arg) ==
    CASE op = "check_ident" ->
            CheckIdent(read_length, read_type, rx, write_buffer)
      [] op = "switch_clock" ->
            SwitchClock(read_length, read_type, rx, write_buffer, arg[1])
      [] op = "get_log" -> GetLog(read_length, read_type, rx, write_buffer)
      [] op = "flash_storage_read" ->
            FlashStorageRead(read_length, read_type, rx, write_buffer, arg[1])
      [] op = "flash_storage_write" ->
            FlashStorageWrite(read_length, read_type, rx, write_buffer, arg[1],
                              arg[2])
      [] op = "flash_storage_erase" ->
            FlashStorageErase(read_length, read_type, rx, write_buffer)
      [] op = "flash_storage_remove" ->
            FlashStorageRemove(read_length, read_type, rx, write_buffer, arg[1])
      [] op = "load" -> Load(read_length, read_type, rx, write_buffer, arg[1])

\* the reply has come: the exported operation that waited in read() reads
\* it and returns or raises; it writes nothing more
DoReply ==
    LET r == Resumed(awaiting.op, awaiting.arg) IN
    /\ awaiting # NotAwaiting
    /\ r.out # "block"
    /\ read_length' = r.read_length
    /\ read_type' = r.read_type
    /\ rx' = r.rx
    /\ awaiting' = NotAwaiting
    /\ last' = ApiOp(awaiting.op, r.out, awaiting.arg, r.val, r.kinds)
    /\ UNCHANGED <<write_type, write_buffer, tx, since_header, pc>>

NextApi ==
    \/ DeviceReply
    \/ DoReply
    \/ DoResetSession
    \/ DoCheckIdent
    \/ DoSwitchClock
    \/ DoGetLog
    \/ DoFlashStorageRead
    \/ DoFlashStorageWrite
    \/ DoFlashStorageErase
    \/ DoFlashStorageRemove
    \/ DoLoad
    \/ DoRun
    \/ DoServe

SpecApi == Init /\ [][NextApi]_vars

----------------------------------------------------------------------------
(* The RPC value decoder on its own: the reader is inside the body of an   *)
(* RPC_REQUEST, past the service index, and the body is on the wire.       *)

\* most values in the argument list of a request body
MaxValues == 2

\* a rational as the device encodes it: tag, numerator, denominator
FractionOnWire(numerator, denominator) ==
    <<TAG_FRACTION>> \o Pack64(numerator) \o Pack64(denominator)

\* encoded values: None, int32 42, (True,), a tuple and a list holding the
\* sentinel byte, a tuple in a tuple holding it, range(1, 5, 2), a range
\* whose lower bound is the sentinel byte, rationals, the string "a",
\* object 5, an unknown tag
ValueEncodings ==
    {<<TAG_NONE>>,
     <<TAG_INT32>> \o Pack32(42),
     <<TAG_TUPLE, 1, TAG_BOOL, 1>>,
     <<TAG_TUPLE, 1, 0>>,
     <<TAG_LIST>> \o Pack32(2) \o <<TAG_NONE, 0>>,
     <<TAG_TUPLE, 1, TAG_TUPLE, 2, 0, TAG_NONE>>,
     <<TAG_RANGE>> \o <<TAG_INT32>> \o Pack32(1) \o <<TAG_INT32>> \o Pack32(5)
                   \o <<TAG_INT32>> \o Pack32(2),
     <<TAG_RANGE>> \o <<0>> \o <<TAG_INT32>> \o Pack32(5) \o <<TAG_INT32>> \o Pack32(2),
     FractionOnWire(1, 2), FractionOnWire(2, 4), FractionOnWire(3, -6),
     FractionOnWire(0, 5), FractionOnWire(1, 0),
     <<TAG_STRING>> \o Pack32(2) \o <<97, 0>>,
     <<TAG_OBJECT>> \o Pack32(5),
     <<120>>}

\* request bodies past the service index: values, then the sentinel byte
ArgBodies ==
    {Flat(values) \o <<0>> : values \in SeqsUpTo(ValueEncodings, MaxValues)}

\* the reader has read the header of an RPC_REQUEST with this body
InitArgs ==
    /\ read_type = RPC_REQUEST
    /\ rx \in ArgBodies
    /\ read_length = Len(rx)
    /\ write_type = NoneType
    /\ write_buffer = <<>>
    /\ tx = <<>>
    /\ pc = "idle"
    /\ awaiting = NotAwaiting
    /\ since_header = [kind |-> NoneType, chunks |-> <<>>]
    /\ last = NoLast

\* a decoder ran as the operation op; what it returned is kept in the
\* history
Decodes(op, r, returned) ==
    /\ r.out # "block"
    /\ read_length' = r.rl
    /\ rx' = r.s
    /\ tx' = <<>>
    /\ last' = Op(op, r.out, 0, IF r.out = "ok" THEN returned ELSE <<>>, NoCall)
    /\ UNCHANGED <<read_type, write_type, write_buffer, pc, awaiting, since_header>>

DoReceiveRpcValue ==
    Decodes("receive_rpc_value", ReceiveRpcValue(RpcMap, read_length, rx),
            <<ReceiveRpcValue(RpcMap, read_length, rx).val>>)

DoReceiveRpcArgs ==
    Decodes("receive_rpc_args", ReceiveRpcArgs(RpcMap, read_length, rx),
            ReceiveRpcArgs(RpcMap, read_length, rx).val)

NextArgs == DoReceiveRpcValue \/ DoReceiveRpcArgs

SpecArgs == InitArgs /\ [][NextArgs]_vars

----------------------------------------------------------------------------
(* What the wire holds, stated apart from the code's loop *)

\* s[p-3..p] are four sync bytes
SyncAt(s, p) == \A k \in (p - 3)..p : s[k] = SYNC_BYTE

\* the index of the last byte of the first run of four consecutive sync
\* bytes of s, 0 when s has none
SyncEnd(s) ==
    IF \E p \in SYNC_COUNT..Len(s) : SyncAt(s, p)
    THEN CHOOSE p \in SYNC_COUNT..Len(s) :
            SyncAt(s, p) /\ \A q \in SYNC_COUNT..(p - 1) : ~SyncAt(s, q)
    ELSE 0

\* the length field that follows the first sync of s, read as big-endian
\* two's complement
DeclaredLength(s) ==
    LET p == SyncEnd(s)
        u == (s[p + 1] % 128) * 16777216 + s[p + 2] * 65536 + s[p + 3] * 256
                 + s[p + 4]
    IN  IF s[p + 1] < 128 THEN u ELSE u - 2147483647 - 1

\* the kind byte that follows the length field
DeclaredKind(s) == s[SyncEnd(s) + 5]

\* s without its leading bytes that are not the sync byte
RECURSIVE StripNoise(_)
StripNoise(s) ==
    IF s # <<>> /\ Head(s) # SYNC_BYTE THEN StripNoise(Tail(s)) ELSE s

\* n >= 0 as k big-endian bytes
BigEndian(n, k) == [i \in 1..k |-> (n \div (256 ^ (k - i))) % 256]

\* the nine header bytes of a frame of kind `kind` with a body of `chunks`
ExpectedHeader(kind, chunks) ==
    <<90, 90, 90, 90>> \o BigEndian(HEADER_SIZE + Len(Flat(chunks)), 4) \o <<kind>>

\* the operation that ran last parsed a header from the wire
HeaderRead == last.op = "read_header" /\ last.out # "underrun"

----------------------------------------------------------------------------
(* Claims about the reader *)

\* C3: _read_header called while remaining-body-length is greater than 0
\* fails with read underrun, reads no byte and leaves the reader state as it
\* was; so no header is parsed while body bytes of the previous message are
\* unread.
C3_UnderrunRefusesHeader ==
    /\ (last.op = "read_header" /\ last.rl0 > 0) =>
          /\ last.out = "underrun"
          /\ rx = last.rx0
          /\ read_length = last.rl0
          /\ read_type = last.rt0
    /\ (last.op = "read_header" /\ rx # last.rx0) => ~(last.rl0 > 0)

\* C3 witness: a header read refused with unread body bytes, a whole frame
\* waiting on the wire
C3_Witness ==
    /\ last.op = "read_header"
    /\ last.out = "underrun"
    /\ last.rl0 > 0
    /\ SyncEnd(rx) > 0

\* C4 as claimed: a header whose declared length is below 9 and not 0 fails
\* with header overrun for every kind byte, and exactly the header bytes are
\* consumed.
C4_ShortLengthIsHeaderOverrun ==
    (HeaderRead /\ DeclaredLength(last.rx0) < HEADER_SIZE
                /\ DeclaredLength(last.rx0) # 0) =>
        /\ last.out = "hdr_overrun"
        /\ rx = Drop(last.rx0, SyncEnd(last.rx0) + 5)

\* C5: a header whose declared length is 0, read after synchronisation from
\* a reader with no unread body bytes, fails with connection closed.
C5_ZeroLengthIsConnectionClosed ==
    (HeaderRead /\ DeclaredLength(last.rx0) = 0) => last.out = "closed"

\* C5 witness: a zero-length header was read, after noise
C5_Witness ==
    /\ HeaderRead
    /\ DeclaredLength(last.rx0) = 0
    /\ last.out = "closed"
    /\ SyncEnd(last.rx0) > SYNC_COUNT

\* C6: _read_header skips everything up to and including the first run of
\* four consecutive sync bytes, takes the next 4 bytes as the length and the
\* byte after them as the kind; leading bytes that are not the sync byte
\* change nothing of the outcome.
C6_SynchronisesOnFirstSync ==
    HeaderRead =>
      LET p == SyncEnd(last.rx0)
          stripped == ReadHeader(last.rl0, last.rt0, StripNoise(last.rx0))
      IN  /\ p > 0
          /\ IF DeclaredLength(last.rx0) = 0
             THEN last.out = "closed" /\ rx = Drop(last.rx0, p + 4)
             ELSE /\ rx = Drop(last.rx0, p + 5)
                  /\ last.out \in {"ok", "hdr_overrun", "badkind"}
                  /\ last.out = "ok" =>
                        /\ read_length = DeclaredLength(last.rx0) - HEADER_SIZE
                        /\ read_type = DeclaredKind(last.rx0)
                  /\ last.out = "hdr_overrun" =>
                        /\ read_length = DeclaredLength(last.rx0)
                        /\ read_type = DeclaredKind(last.rx0)
          /\ stripped.out = last.out
          /\ stripped.read_length = read_length
          /\ stripped.read_type = read_type
          /\ stripped.rx = rx

\* C6 witness: a header parsed after noise that holds a broken sync run
C6_Witness ==
    /\ HeaderRead
    /\ last.out = "ok"
    /\ Len(last.rx0) >= 2
    /\ last.rx0[1] = SYNC_BYTE
    /\ last.rx0[2] # SYNC_BYTE
    /\ read_length = 1

\* C7: _read_chunk(n) with n above the remaining length fails with overrun,
\* reads nothing and leaves the remaining length; with 0 <= n <= remaining
\* it reads exactly the next n bytes and lowers the remaining length by n.
C7_ChunkWithinRemaining ==
    last.op = "read_chunk" =>
      IF last.arg > last.rl0
      THEN /\ last.out = "overrun"
           /\ rx = last.rx0
           /\ last.data = <<>>
           /\ read_length = last.rl0
      ELSE /\ last.out = "ok"
           /\ Len(last.data) = last.arg
           /\ last.rx0 = last.data \o rx
           /\ read_length = last.rl0 - last.arg

\* C7 witness: a chunk one byte longer than the remaining body was asked
\* for while the wire held that many bytes
C7_Witness ==
    /\ last.op = "read_chunk"
    /\ last.out = "overrun"
    /\ last.rl0 > 0
    /\ last.arg = last.rl0 + 1
    /\ Len(last.rx0) >= last.arg

----------------------------------------------------------------------------
(* Claims about the writer *)

\* C8: a _write_flush that follows a _write_header writes the sync word,
\* the big-endian length 9 + (bytes appended since that _write_header), its
\* kind, then exactly the chunks appended since, in order; _write_header
\* and the append operations write nothing.
C8_FlushEmitsOneFrame ==
    /\ (last.op \in {"write_flush", "write_empty"} /\ last.out = "ok") =>
          tx = <<ExpectedHeader(since_header.kind, since_header.chunks)>>
                 \o since_header.chunks
    /\ last.op \in {"write_header", "write_chunk", "write_int8", "write_int32",
                    "write_int64", "write_bytes", "write_string"} => tx = <<>>

\* C8 witness: a flush of a message of several chunks
C8_Witness ==
    /\ last.op = "write_flush"
    /\ last.out = "ok"
    /\ Len(since_header.chunks) >= 2
    /\ Len(Flat(tx)) > HEADER_SIZE + 2

\* C9 as claimed: after _write_flush the pending buffer is empty, and a
\* flush that directly follows a flush emits a frame with an empty body.
C9_FlushClearsBuffer ==
    (last.op = "write_flush" /\ last.out = "ok") =>
        /\ write_buffer = <<>>
        /\ last.prev = "write_flush" =>
              Flat(tx) = ExpectedHeader(since_header.kind, <<>>)

----------------------------------------------------------------------------
(* Claims about the serve loop *)

\* -2^31 < w <= 2^31-1
InInt32Range(w) ==
    /\ w.hi >= -32768
    /\ w.hi <= 32767
    /\ ~(w.hi = -32768 /\ w.lo = 0)

\* the 4 bytes of the two's complement of w
Int32Bytes(w) == BigEndian((w.hi + 65536) % 65536, 2) \o BigEndian(w.lo, 2)

\* the writes are exactly one frame of this kind
OneFrame(writes, kind) ==
    LET f == Flat(writes) IN
    /\ Len(f) >= HEADER_SIZE
    /\ SubSeq(f, 1, 8) = <<90, 90, 90, 90>> \o BigEndian(Len(f), 4)
    /\ f[9] = kind

\* the pass of serve that ran last called the callable of the rpc_map
CallMade ==
    /\ last.op = "serve"
    /\ last.call.made
    /\ last.call.service \in DOMAIN RpcMap
    /\ RpcMap[last.call.service] = "callable"

\* ... and the callable returned an int
IntReturned ==
    /\ CallMade
    /\ last.call.call.kind = "return"
    /\ last.call.call.result.t = "int"

\* ... and the callable failed: it raised, or returned what is no int32 in
\* (-2^31, 2^31-1]
CallFailed ==
    /\ CallMade
    /\ \/ last.call.call.kind = "raise"
       \/ /\ last.call.call.kind = "return"
          /\ \/ last.call.call.result.t = "none"
             \/ /\ last.call.call.result.t = "int"
                /\ ~InInt32Range(last.call.call.result.w)

\* C1 as claimed: whenever the callable of an RPC_REQUEST fails, the host
\* writes exactly one RPC_EXCEPTION frame and the loop goes on to the next
\* header.
C1_CallableFailureAnswered ==
    CallFailed =>
        /\ last.out = "ok"
        /\ pc = "serving"
        /\ OneFrame(tx, RPC_EXCEPTION)

\* C2 as claimed: an int result r is answered with an RPC_REPLY carrying
\* int32 r if and only if -2^31 < r <= 2^31-1, and is never written to an
\* RPC_REPLY otherwise.
C2_ResultAcceptedIffInRange ==
    IntReturned =>
        LET r == last.call.call.result.w IN
        IF InInt32Range(r)
        THEN /\ last.out = "ok"
             /\ Flat(tx) = ExpectedHeader(RPC_REPLY, <<Int32Bytes(r)>>)
                             \o Int32Bytes(r)
        ELSE /\ last.out # "ok"
             /\ ~OneFrame(tx, RPC_REPLY)

\* C10 as claimed: an RPC_REQUEST whose callable returns a valid int32 v is
\* answered with exactly one frame, an RPC_REPLY carrying v, after the
\* service index and the arguments up to the sentinel were read, and serve
\* goes on to the next header.
C10_ValidResultReplied ==
    (IntReturned /\ InInt32Range(last.call.call.result.w)) =>
        LET v == last.call.call.result.w
            consumed == Len(last.rx0) - Len(rx)
        IN  /\ Flat(tx) = ExpectedHeader(RPC_REPLY, <<Int32Bytes(v)>>)
                            \o Int32Bytes(v)
            /\ consumed >= SyncEnd(last.rx0) + 5 + 4 + 1
            /\ last.rx0[consumed] = 0
            /\ last.out = "ok"
            /\ pc = "serving"

\* the pass of serve that ran last started from a drained reader and parsed
\* a well-formed header of a known kind
ServeHeaderRead ==
    /\ last.op = "serve"
    /\ last.rl0 <= 0
    /\ DeclaredLength(last.rx0) >= HEADER_SIZE
    /\ DeclaredKind(last.rx0) \in D2HMsgType

\* C11: serve returns only on a header of kind KERNEL_FINISHED, and does
\* return on it; a header of a kind other than RPC_REQUEST, KERNEL_EXCEPTION
\* and KERNEL_FINISHED makes it fail with the mismatch error; in both cases
\* nothing is written.
C11_ReturnsOnlyOnKernelFinished ==
    /\ (last.op = "serve" /\ last.out = "return") =>
          /\ ServeHeaderRead
          /\ DeclaredKind(last.rx0) = KERNEL_FINISHED
          /\ pc = "returned"
          /\ tx = <<>>
    /\ (ServeHeaderRead /\ DeclaredKind(last.rx0) = KERNEL_FINISHED) =>
          last.out = "return"
    /\ (ServeHeaderRead /\ DeclaredKind(last.rx0) \notin
                              {RPC_REQUEST, KERNEL_EXCEPTION, KERNEL_FINISHED}) =>
          /\ last.out = "mismatch"
          /\ pc = "raised"
          /\ tx = <<>>
    /\ pc = "returned" => last.op \in {"serve", "device_send"}

\* C11 witness: the first pass of serve, fed a KERNEL_FINISHED frame,
\* returned
C11_Witness ==
    /\ last.op = "serve"
    /\ last.prev = "device_send"
    /\ last.out = "return"
    /\ last.rx0 = WireFrame(<<>>, HEADER_SIZE, KERNEL_FINISHED, <<>>)
    /\ pc = "returned"
    /\ tx = <<>>

\* the frame of the remote exception the device reports
ExceptionFrame ==
    WireFrame(<<>>, HEADER_SIZE + Len(ExceptionBody), KERNEL_EXCEPTION, ExceptionBody)

\* C12: on a KERNEL_EXCEPTION header serve decodes name, message, three
\* params, filename, line, column, function and the backtrace from the
\* body, raises the remote exception of those fields, writes nothing and
\* reads nothing after the body.
C12_KernelExceptionEndsSession ==
    (last.op = "serve" /\ last.rl0 <= 0
        /\ Len(last.rx0) >= Len(ExceptionFrame)
        /\ SubSeq(last.rx0, 1, Len(ExceptionFrame)) = ExceptionFrame) =>
        /\ last.out = "ARTIQException"
        /\ last.call.exn = <<SomeRemoteException.name, SomeRemoteException.message,
                              1, 0, -1, SomeRemoteException.filename, 3, 4,
                              SomeRemoteException.function>>
        /\ last.call.backtrace = <<258>>
        /\ rx = Drop(last.rx0, Len(ExceptionFrame))
        /\ read_length = 0
        /\ tx = <<>>
        /\ pc = "raised"

\* C12 witness: serve raised the remote exception after an RPC was served
C12_Witness ==
    /\ last.op = "serve"
    /\ last.out = "ARTIQException"
    /\ last.rx0 = ExceptionFrame
    /\ rx = <<>>
    /\ pc = "raised"

----------------------------------------------------------------------------
(* Claims about the exported APIs *)

\* the exported operation that ran last read a reply header: it started
\* from a drained reader and is not waiting for the reply
ReplyRead(op) == last.op = op /\ last.rl0 <= 0 /\ last.out # "waits"

\* the kind of the reply frame the operation that ran last found first
ReplyKind == DeclaredKind(last.rx0)

\* the bytes of one frame of this kind with the body of these chunks
FrameOf(kind, chunks) == ExpectedHeader(kind, chunks) \o Flat(chunks)

\* a byte string as _write_bytes frames it; the strings of the model are
\* ASCII, a string is its bytes and a NUL
BytesOnWire(value) == <<BigEndian(Len(value), 4), value>>

\* the operation that ran last failed in _read_expect, reporting the kind
\* it found and the one it expected
MismatchReported(expected) ==
    /\ last.out = "mismatch"
    /\ last.call.kinds = [observed |-> ReplyKind, expected |-> expected]

\* C13: flash_storage_write writes one FLASH_WRITE_REQUEST frame holding the
\* key and the value, then fails with the storage-full error on a
\* FLASH_ERROR_REPLY, returns on a FLASH_OK_REPLY, and fails with the
\* mismatch error on every other reply kind.
C13_FlashWriteOutcome ==
    last.op = "flash_storage_write" =>
        /\ Flat(tx) = FrameOf(FLASH_WRITE_REQUEST,
                              BytesOnWire(last.arg[1] \o <<0>>)
                                  \o BytesOnWire(last.arg[2]))
        /\ ReplyRead("flash_storage_write") =>
              /\ ReplyKind = FLASH_ERROR_REPLY => last.out = "storage_full"
              /\ ReplyKind = FLASH_OK_REPLY => last.out = "ok"
              /\ ReplyKind \notin {FLASH_ERROR_REPLY, FLASH_OK_REPLY} =>
                    MismatchReported(FLASH_OK_REPLY)

\* C13 witness: a write of a key and a value was answered with
\* FLASH_ERROR_REPLY
C13_Witness ==
    /\ ReplyRead("flash_storage_write")
    /\ last.arg = <<(<<107>>), (<<127, 69>>)>>
    /\ ReplyKind = FLASH_ERROR_REPLY
    /\ last.out = "storage_full"

\* the first 4 bytes of the body of the reply, when it has that many
ReplyId == SubSeq(last.rx0, SyncEnd(last.rx0) + 6, SyncEnd(last.rx0) + 9)

\* C14: check_ident returns if and only if the reply is an IDENT_REPLY whose
\* first 4 body bytes are 'A','R','O','R'; an IDENT_REPLY with 4 other bytes
\* fails with the unsupported-device error, every other reply kind with the
\* mismatch error.
C14_CheckIdentOutcome ==
    last.op = "check_ident" =>
        /\ last.out = "ok" <=>
              /\ ReplyRead("check_ident")
              /\ ReplyKind = IDENT_REPLY
              /\ DeclaredLength(last.rx0) >= HEADER_SIZE + 4
              /\ ReplyId = <<65, 82, 79, 82>>
        /\ (ReplyRead("check_ident") /\ ReplyKind = IDENT_REPLY
                /\ DeclaredLength(last.rx0) >= HEADER_SIZE + 4
                /\ ReplyId # <<65, 82, 79, 82>>) =>
              last.out = "UnsupportedDevice"
        /\ (ReplyRead("check_ident") /\ ReplyKind # IDENT_REPLY) =>
              MismatchReported(IDENT_REPLY)

\* C14 witness: an IDENT_REPLY carrying 'A','R','O','X' was refused
C14_Witness ==
    /\ ReplyRead("check_ident")
    /\ ReplyKind = IDENT_REPLY
    /\ DeclaredLength(last.rx0) = HEADER_SIZE + 4
    /\ ReplyId = <<65, 82, 79, 88>>
    /\ last.out = "UnsupportedDevice"

\* the request/reply operations of C16
ExchangeOps ==
    {"check_ident", "switch_clock", "get_log", "flash_storage_read",
     "flash_storage_erase", "flash_storage_remove", "load"}

\* the kind of the request of an exported operation
RequestKindOf(op) ==
    CASE op = "check_ident" -> IDENT_REQUEST
      [] op = "switch_clock" -> SWITCH_CLOCK
      [] op = "get_log" -> LOG_REQUEST
      [] op = "flash_storage_read" -> FLASH_READ_REQUEST
      [] op = "flash_storage_write" -> FLASH_WRITE_REQUEST
      [] op = "flash_storage_erase" -> FLASH_ERASE_REQUEST
      [] op = "flash_storage_remove" -> FLASH_REMOVE_REQUEST
      [] op = "load" -> LOAD_LIBRARY
      [] op = "run" -> RUN_KERNEL

\* the reply kind an exported operation expects
ReplyKindOf(op) ==
    CASE op = "check_ident" -> IDENT_REPLY
      [] op = "switch_clock" -> CLOCK_SWITCH_COMPLETED
      [] op = "get_log" -> LOG_REPLY
      [] op = "flash_storage_read" -> FLASH_READ_REPLY
      [] op \in {"flash_storage_write", "flash_storage_erase",
                 "flash_storage_remove"} -> FLASH_OK_REPLY
      [] op = "load" -> LOAD_COMPLETED

\* the body of the request of an exported operation called with arg
RequestChunksOf(op, arg) ==
    CASE op \in {"check_ident", "get_log", "flash_storage_erase", "run"} -> <<>>
      [] op = "switch_clock" -> <<(<<arg[1]>>)>>
      [] op \in {"flash_storage_read", "flash_storage_remove"} ->
            BytesOnWire(arg[1] \o <<0>>)
      [] op = "load" -> <<arg[1]>>

\* C16: each request/reply operation writes exactly one frame of its own
\* kind whatever the reads that follow do (the frame is written before any
\* byte is read: while the operation waits for the reply the frame is
\* written and nothing is read), returns only if the reply header is of the kind it
\* expects, and fails with the mismatch error naming both kinds on any
\* other kind; run writes one RUN_KERNEL frame and reads nothing.
C16_RequestThenReply ==
    /\ last.op \in ExchangeOps =>
          /\ Flat(tx) = FrameOf(RequestKindOf(last.op),
                                RequestChunksOf(last.op, last.arg))
          /\ last.out = "ok" =>
                ReplyRead(last.op) /\ ReplyKind = ReplyKindOf(last.op)
          /\ (ReplyRead(last.op) /\ ReplyKind # ReplyKindOf(last.op)) =>
                MismatchReported(ReplyKindOf(last.op))
          /\ last.out = "waits" => rx = last.rx0 /\ read_length = last.rl0
    /\ last.op = "run" =>
          /\ Flat(tx) = FrameOf(RUN_KERNEL, <<>>)
          /\ last.out = "ok"
          /\ rx = last.rx0
          /\ read_length = last.rl0

\* C16 witness: load wrote its frame and found a reply of another kind
C16_Witness ==
    /\ ReplyRead("load")
    /\ last.arg = <<(<<127, 69>>)>>
    /\ Flat(tx) = <<90, 90, 90, 90, 0, 0, 0, 11, LOAD_LIBRARY, 127, 69>>
    /\ ReplyKind = FLASH_OK_REPLY
    /\ last.out = "mismatch"

\* C20 as claimed: whenever an exported request/reply operation or serve
\* returns, the remaining body length is 0.
C20_ReturnsDrained ==
    \/ /\ last.op \in ExchangeOps \cup {"flash_storage_write"}
       /\ last.out = "ok"
    \/ /\ last.op = "serve"
       /\ last.out = "return"
    => read_length = 0

----------------------------------------------------------------------------
(* Further claims about the reader *)

\* C18 as claimed: the remaining body length is never negative, after a
\* header read it is at most the declared length less 9, and no chunk read
\* increases it.
C18_RemainingWithinDeclared ==
    /\ read_length >= 0
    /\ HeaderRead => read_length <= DeclaredLength(last.rx0) - HEADER_SIZE
    /\ last.op = "read_chunk" => read_length <= last.rl0

\* C19 as claimed: a _read_header that fails with header overrun, an
\* unknown kind or connection closed leaves the remaining body length at 0.
C19_FailedHeaderLeavesDrained ==
    (last.op = "read_header" /\ last.out \in {"hdr_overrun", "badkind", "closed"})
        => read_length = 0

----------------------------------------------------------------------------
(* Claims about the RPC value decoder *)

RECURSIVE ContainsSentinel(_)
\* the value is the sentinel or holds it at some depth
ContainsSentinel(v) ==
    \/ v.t = "sentinel"
    \/ /\ v.t \in {"tuple", "list"}
       /\ \E k \in 1..Len(v.v) : ContainsSentinel(v.v[k])

\* C15 as claimed: the arguments _receive_rpc_args returns end at a
\* sentinel byte of the body, and none of them is or holds the sentinel.
C15_SentinelNeverNested ==
    (last.op = "receive_rpc_args" /\ last.out = "ok") =>
        /\ Len(last.rx0) > Len(rx)
        /\ last.rx0[Len(last.rx0) - Len(rx)] = 0
        /\ \A k \in 1..Len(last.data) : ~ContainsSentinel(last.data[k])

\* the int64 at s[i..i+7], for the values of the model, all within 32 bits
Int64At(s, i) ==
    IF s[i] = 0
    THEN s[i + 4] * 16777216 + s[i + 5] * 65536 + s[i + 6] * 256 + s[i + 7]
    ELSE (s[i + 4] - 255) * 16777216 + (s[i + 5] - 255) * 65536
            + (s[i + 6] - 255) * 256 + s[i + 7] - 256

\* C17 as claimed: a value of tag 'F' decodes to the numerator and the
\* denominator exactly as they are on the wire, for every pair.
C17_FractionAsReceived ==
    (last.op = "receive_rpc_value" /\ last.rl0 >= 17
        /\ last.rx0[1] = TAG_FRACTION) =>
        /\ last.out = "ok"
        /\ last.data = <<[t |-> "fraction", num |-> Int64At(last.rx0, 2),
                          den |-> Int64At(last.rx0, 10)]>>

====
